---- MODULE Spec2Model ----
(***************************************************************************)
(* Model of the IRT (graded response model) evaluation performed by        *)
(* generate_nonmem_infographics.py: create_icc_curves and                  *)
(* create_irt_summary, driven by main.                                     *)
(*                                                                         *)
(* Numbers are binary floating-point values, as the Python floats and      *)
(* numpy float64 arrays of the source are, in a reduced format: a          *)
(* significand of MantBits bits and a binary exponent in MinExp..MaxExp,   *)
(* every operation rounded to nearest, ties to even, overflowing to an     *)
(* infinity and underflowing gradually to zero.  A value is the pair       *)
(* <<m, e>> standing for m * 2^e.                                          *)
(***************************************************************************)
EXTENDS Integers, Sequences, FiniteSets, TLC

\* ------------------------------------------------------------------------
\* Floating-point format (reduced IEEE-754 binary format)
\* ------------------------------------------------------------------------
MantBits == 6
MaxExp == 30
MinExpAbs == 40
MinExp == 0 - MinExpAbs

RECURSIVE Pow2(_)
Pow2(n) == IF n <= 0 THEN 1 ELSE 2 * Pow2(n - 1)

MantHi == Pow2(MantBits)
MantLo == Pow2(MantBits - 1)

Abs(n) == IF n < 0 THEN 0 - n ELSE n
Sgn(n) == IF n < 0 THEN 0 - 1 ELSE IF n > 0 THEN 1 ELSE 0

FZero == <<0, 0>>
FInf == <<1, MaxExp + 1>>
FNegInf == <<0 - 1, MaxExp + 1>>
FNaN == <<0, MaxExp + 1>>

IsInf(x) == x[2] = MaxExp + 1 /\ x[1] # 0
IsNaN(x) == x = FNaN
IsFinite(x) == x[2] <= MaxExp

\* Round the positive rational (n / d) * 2^e to the format; sg is the sign.
RECURSIVE RoundQ(_, _, _, _)
RoundQ(sg, n, d, e) ==
    IF n = 0 THEN FZero
    ELSE IF e < MinExp - MantBits - 2 /\ n < d * MantHi THEN FZero
    ELSE IF e >= MaxExp + MantBits /\ n >= d THEN <<sg, MaxExp + 1>>
    ELSE IF n >= d * MantHi THEN RoundQ(sg, n, 2 * d, e + 1)
    ELSE IF e < MinExp THEN RoundQ(sg, n, 2 * d, e + 1)
    ELSE IF n < d * MantLo /\ e > MinExp THEN RoundQ(sg, 2 * n, d, e - 1)
    ELSE LET q == n \div d
             r == n % d
             m == IF 2 * r > d \/ (2 * r = d /\ q % 2 = 1) THEN q + 1 ELSE q
             m2 == IF m = MantHi THEN MantLo ELSE m
             e2 == IF m = MantHi THEN e + 1 ELSE e
         IN  IF m = 0 THEN FZero
             ELSE IF e2 > MaxExp THEN <<sg, MaxExp + 1>>
             ELSE <<sg * m2, e2>>

\* The float nearest to the rational n / d (a literal of the source).
FromRat(n, d) == RoundQ(Sgn(n), Abs(n), d, 0)
FromInt(n) == FromRat(n, 1)
FOne == FromInt(1)

FNeg(x) == <<0 - x[1], x[2]>>

FAdd(x, y) ==
    IF IsNaN(x) \/ IsNaN(y) THEN FNaN
    ELSE IF IsInf(x) THEN (IF IsInf(y) /\ y # x THEN FNaN ELSE x)
    ELSE IF IsInf(y) THEN y
    ELSE IF x[1] = 0 THEN y
    ELSE IF y[1] = 0 THEN x
    ELSE IF x[2] - y[2] > MantBits + 2 THEN x
    ELSE IF y[2] - x[2] > MantBits + 2 THEN y
    ELSE LET e == IF x[2] < y[2] THEN x[2] ELSE y[2]
             n == x[1] * Pow2(x[2] - e) + y[1] * Pow2(y[2] - e)
         IN  RoundQ(Sgn(n), Abs(n), 1, e)

FSub(x, y) == FAdd(x, FNeg(y))

FMul(x, y) ==
    IF IsNaN(x) \/ IsNaN(y) THEN FNaN
    ELSE IF IsInf(x) \/ IsInf(y)
         THEN (IF x[1] = 0 \/ y[1] = 0 THEN FNaN ELSE <<Sgn(x[1]) * Sgn(y[1]), MaxExp + 1>>)
    ELSE RoundQ(Sgn(x[1]) * Sgn(y[1]), Abs(x[1] * y[1]), 1, x[2] + y[2])

FDiv(x, y) ==
    IF IsNaN(x) \/ IsNaN(y) THEN FNaN
    ELSE IF IsInf(x) THEN (IF IsInf(y) THEN FNaN
                           ELSE <<Sgn(x[1]) * (IF y[1] < 0 THEN 0 - 1 ELSE 1), MaxExp + 1>>)
    ELSE IF IsInf(y) THEN FZero
    ELSE IF y[1] = 0 THEN (IF x[1] = 0 THEN FNaN ELSE <<Sgn(x[1]), MaxExp + 1>>)
    ELSE RoundQ(Sgn(x[1]) * Sgn(y[1]), Abs(x[1]), Abs(y[1]), x[2] - y[2])

\* Order of two values that are not NaN.
FLt(x, y) ==
    LET sx == Sgn(x[1])
        sy == Sgn(y[1])
    IN  IF sx # sy THEN sx < sy
        ELSE IF sx = 0 THEN FALSE
        ELSE IF sx > 0 THEN x[2] < y[2] \/ (x[2] = y[2] /\ x[1] < y[1])
        ELSE y[2] < x[2] \/ (x[2] = y[2] /\ x[1] < y[1])
FLe(x, y) == x = y \/ FLt(x, y)

\* ------------------------------------------------------------------------
\* np.exp: argument reduction x = k*ln2 + r, |r| <= ln2 / 2, a Taylor
\* polynomial for e^r in fixed point, the result 2^k * e^r rounded to the
\* format; overflow gives +inf, underflow 0.
\* ------------------------------------------------------------------------
Ln2Q20 == 726817
ExpFrac == MantBits + 9
ExpOne == Pow2(ExpFrac)

\* x * 2^20 as an integer, for |x| < 32
ToQ20(x) ==
    IF x[2] + 20 >= 0 THEN x[1] * Pow2(x[2] + 20)
    ELSE Sgn(x[1]) * (Abs(x[1]) \div Pow2(0 - (x[2] + 20)))

RECURSIVE ExpSeries(_, _, _, _)
ExpSeries(r, n, term, acc) ==
    IF n > 9 THEN acc
    ELSE LET t == (term * r + (n * ExpOne) \div 2) \div (n * ExpOne)
         IN  ExpSeries(r, n + 1, t, acc + t)

FExp(x) ==
    IF IsNaN(x) THEN FNaN
    ELSE IF x = FInf THEN FInf
    ELSE IF x = FNegInf THEN FZero
    ELSE IF x[1] = 0 THEN FOne
    ELSE IF x[2] + MantBits > 5 /\ Abs(x[1]) >= MantLo
         THEN (IF x[1] > 0 THEN FInf ELSE FZero)
    ELSE LET xq == ToQ20(x)
             k == (2 * xq + Ln2Q20) \div (2 * Ln2Q20)
             r20 == xq - k * Ln2Q20
             sh == Pow2(20 - ExpFrac)
             r == (2 * r20 + sh) \div (2 * sh)
             es == ExpSeries(r, 1, ExpOne, ExpOne)
         IN  RoundQ(1, es, 1, k - ExpFrac)

FAbs(x) == <<Abs(x[1]), x[2]>>

\* ------------------------------------------------------------------------
\* np.sqrt: the integer square root of the significand, scaled so that it
\* carries MantBits + 2 bits, rounded to the format; nan below zero.
\* ------------------------------------------------------------------------
RECURSIVE SqrtBits(_, _, _)
SqrtBits(n, r, bit) ==
    IF bit = 0 THEN r
    ELSE IF (r + bit) * (r + bit) <= n THEN SqrtBits(n, r + bit, bit \div 2)
    ELSE SqrtBits(n, r, bit \div 2)

FSqrt(x) ==
    IF IsNaN(x) \/ x[1] < 0 THEN FNaN
    ELSE IF x = FInf THEN FInf
    ELSE IF x[1] = 0 THEN FZero
    ELSE LET odd == x[2] % 2 = 1
             m2 == IF odd THEN 2 * x[1] ELSE x[1]
             e2 == IF odd THEN x[2] - 1 ELSE x[2]
             t == MantBits + 1
             n == m2 * Pow2(2 * t)
             r == SqrtBits(n, 0, Pow2(2 * MantBits))
         IN  IF r * r = n THEN RoundQ(1, r, 1, (e2 \div 2) - t)
             ELSE RoundQ(1, 2 * r + 1, 2, (e2 \div 2) - t)

\* A decimal literal of the source, n / 1000, as the float Python reads it as.
Lit(n) == FromRat(n, 1000)

\* ------------------------------------------------------------------------
\* Configuration: IRT_PARAMS (dict order kept) and the evaluation grid
\* ------------------------------------------------------------------------
\* Item with max_score counting the categories instead of the top score.
ItemShifted(name, boundaries, slope, max_score) ==
    [name |-> name, max_score |-> max_score + 1, slope |-> slope, boundaries |-> boundaries]
\* One entry of the dict: {'boundaries': [...], 'slope': value, 'max_score': int}
Item(name, boundaries, slope, max_score) ==
    [name |-> name, max_score |-> max_score, slope |-> slope, boundaries |-> boundaries]

IRT_PARAMS ==
    << Item("Pyramidal",
            <<Lit(0 - 1550), Lit(1248), Lit(818), Lit(1428), Lit(1313)>>, Lit(3172), 5),
       Item("Cerebellar",
            <<Lit(0 - 913), Lit(963), Lit(1023), Lit(1648), Lit(1074)>>, Lit(2873), 5),
       Item("Brainstem",
            <<Lit(0 - 112), Lit(1711), Lit(2000), Lit(2780)>>, Lit(1038), 4),
       Item("Sensory",
            <<Lit(0 - 783), Lit(1186), Lit(1946), Lit(2345), Lit(2937), Lit(2353)>>,
            Lit(993), 6),
       Item("Bowel/Bladder",
            <<Lit(0 - 147), Lit(1887), Lit(1531), Lit(2996), Lit(968)>>, Lit(1256), 5),
       Item("Visual",
            <<Lit(0 - 37), Lit(3751), Lit(2660), Lit(1688), Lit(1705), Lit(1637)>>,
            Lit(440), 6),
       Item("Mental",
            <<Lit(402), Lit(1111), Lit(4161), Lit(2890)>>, Lit(912), 4),
       Item("Ambulation",
            <<Lit(1133), Lit(244), Lit(225), Lit(423), Lit(448), Lit(484),
              Lit(139), Lit(261), Lit(351)>>, Lit(3640), 9) >>

\* SlopeMilli with Pyramidal as steep as Ambulation.
SlopeMilliTied == <<3640, 2873, 1038, 993, 1256, 440, 912, 3640>>
\* The slopes of IRT_PARAMS as the source writes them, in thousandths.
SlopeMilli == <<3172, 2873, 1038, 993, 1256, 440, 912, 3640>>
\* f'{val:.2f}': a value in thousandths shown with two decimals, in hundredths
\* (no configured value lies halfway between two hundredths).
Round2(milli) == (milli + 5) \div 10

\* guide_text of create_irt_summary, "High discrimination items": each line
\* such as "Ambulation (3.64)" as the pair <<name, value in hundredths>>.
GuideHighItems == << <<"Ambulation", 364>>, <<"Pyramidal", 317>>, <<"Cerebellar", 287>> >>

\* np.linspace(start, stop, n): start + j * step, the last point being stop.
Linspace(start, stop, n) ==
    LET step == FDiv(FSub(stop, start), FromInt(n - 1))
    IN  [j \in 1..n |-> IF j = n THEN stop
                        ELSE FAdd(FMul(FromInt(j - 1), step), start)]

\* Number of grid points of the model (200 in the source).
GridN == 4
\* Longest boundaries sequence of a synthetic item specification.
MaxLen == 2

\* theta_range = np.linspace(-3, 6, 200)
ThetaRange == Linspace(Lit(0 - 3000), Lit(6000), GridN)
\* A second evaluation grid, around the origin.
FineRange == Linspace(Lit(0 - 1000), Lit(1000), 2 * (GridN \div 2) + 1)
Grids == {ThetaRange, FineRange}

\* Synthetic item specifications: boundary offsets, slopes and max_score
\* values the evaluator may be handed.
BoundVals == {Lit(0 - 1500), Lit(0), Lit(4), Lit(1500)}
SlopeVals == {Lit(0 - 1000), Lit(0), Lit(500), Lit(2000), Lit(4000)}

SeqsUpTo(S, n) == UNION {[1..m -> S] : m \in 0..n}

SynthItems ==
    {Item("Item", bs, a, Len(bs) + d) :
        d \in {0, 1}, a \in SlopeVals, bs \in SeqsUpTo(BoundVals, MaxLen)}

\* Two items with the single threshold 0 and the slopes 1 and 2.
TwoItems ==
    << Item("Item1", <<Lit(0)>>, Lit(1000), 1),
       Item("Item2", <<Lit(0)>>, Lit(2000), 1) >>
\* One steep item whose threshold lies far above the low end of the grid.
SteepItem == << Item("Steep", <<Lit(3000)>>, Lit(4000), 1) >>

Batteries == {IRT_PARAMS, TwoItems, SteepItem} \cup {<<it>> : it \in SynthItems}

\* ------------------------------------------------------------------------
\* The formulas of the evaluator
\* ------------------------------------------------------------------------
\* cum_boundaries = [boundaries[0]]
CumInit(boundaries) == <<boundaries[1]>>
\* CumAppend subtracting the offset.
CumAppendMinus(cum, boundaries, j) == Append(cum, FSub(cum[Len(cum)], boundaries[j + 1]))
\* CumAppend reading boundaries[i - 1].
CumAppendOffByOne(cum, boundaries, j) == Append(cum, FAdd(cum[Len(cum)], boundaries[j]))
\* cum_boundaries.append(cum_boundaries[-1] + boundaries[i]), i counted from 0
CumAppend(cum, boundaries, j) == Append(cum, FAdd(cum[Len(cum)], boundaries[j + 1]))

\* Logit with the threshold added, and with the difference reversed.
LogitPlus(slope, theta, b) == FMul(slope, FAdd(theta, b))
LogitReversed(slope, theta, b) == FMul(slope, FSub(b, theta))
\* logit = slope * (theta_range - b), at one grid point
Logit(slope, theta, b) == FMul(slope, FSub(theta, b))
\* Prob with the sign of the exponent lost.
ProbSignLost(lg) == FDiv(FOne, FAdd(FOne, FExp(lg)))
\* prob = 1 / (1 + np.exp(-logit)), at one grid point
Prob(lg) == FDiv(FOne, FAdd(FOne, FExp(FNeg(lg))))
\* Info with slope in place of slope ** 2.
InfoNoSquare(slope, p) == FMul(FMul(slope, p), FSub(FOne, p))
\* info = (slope ** 2) * p * (1 - p), at one grid point
Info(slope, p) == FMul(FMul(FMul(slope, slope), p), FSub(FOne, p))

VLogit(slope, grid, b) == [g \in 1..Len(grid) |-> Logit(slope, grid[g], b)]
VProb(lg) == [g \in 1..Len(lg) |-> Prob(lg[g])]
VInfo(slope, p) == [g \in 1..Len(p) |-> Info(slope, p[g])]
\* np.zeros_like(theta_range)
VZeros(grid) == [g \in 1..Len(grid) |-> FZero]
\* elementwise sum of two arrays
VAdd(u, v) == [g \in 1..Len(u) |-> FAdd(u[g], v[g])]
\* Accumulate with = in place of +=.
AccumulateOverwrite(total, nf) == nf
\* total_info += info; total_test_info += info
Accumulate(total, nf) == VAdd(total, nf)

\* CurveLabel counting from 0.
CurveLabelFromZero(k) == k
\* label=f'P(X>={k+1})': the score a curve is labelled with
CurveLabel(k) == k + 1

\* The literal 1e-10 = 2^-10 / 5^10.
Eps == RoundQ(1, 1, 9765625, 0 - 10)
\* StdErr without the added 1e-10, and without the square root.
StdErrNoGuard(t) == FDiv(FOne, FSqrt(t))
StdErrNoSqrt(t) == FDiv(FOne, FAdd(t, Eps))
\* se = 1 / np.sqrt(total_test_info + 1e-10), at one grid point
StdErr(t) == FDiv(FOne, FSqrt(FAdd(t, Eps)))
VStdErr(total) == [g \in 1..Len(total) |-> StdErr(total[g])]

\* ------------------------------------------------------------------------
\* Program state
\* ------------------------------------------------------------------------
VARIABLES
    irt,              \* the item specifications under evaluation (IRT_PARAMS)
    theta_range,      \* the evaluation grid
    pc,               \* position in main / create_icc_curves / create_irt_summary
    idx,              \* number of items the current for-loop has taken
    i,                \* loop variable of the cumulative-boundary loop
    k,                \* number of thresholds the current threshold loop has taken
    cum_boundaries,   \* cumulative thresholds of the current item
    logit, prob,      \* arrays computed for the current threshold
    info,             \* information array of the current threshold
    icc_lines,        \* per item, the curves ax.plot drew: <<label k+1, prob>>
    total_info,       \* item information accumulator
    item_info,        \* the curves ax3.plot drew: <<item_name, total_info>>
    total_test_info,  \* test information accumulator
    se,               \* standard error of measurement over the grid
    boundary_pts,     \* per item, the thresholds ax5.scatter drew
    corr_matrix,      \* the matrix create_correlation_heatmap draws
    cum_log,          \* what each cumulative loop ended with: <<loop, idx, thresholds>>
    slides,           \* prs.slides of generate_pptx.py, in order
    args,             \* arguments of the last add_image_slide_with_notes call made directly
    files,            \* files written to the working directory, in order
    out,              \* lines printed, in order
    err               \* the exception that ended the program, or "none"

vars == <<irt, theta_range, pc, idx, i, k, cum_boundaries, logit, prob, info,
          icc_lines, total_info, item_info, total_test_info, se, boundary_pts,
          corr_matrix, cum_log, slides, args, files, out, err>>

inputs == <<irt, theta_range>>
loopv == <<idx, i, k, cum_boundaries>>
iccv == <<logit, prob, icc_lines>>
infv == <<info, total_info, item_info>>
iov == <<files, out>>

Init ==
    /\ irt \in Batteries
    /\ theta_range \in Grids
    /\ pc = "main"
    /\ idx = 0 /\ i = 0 /\ k = 0
    /\ cum_boundaries = <<>>
    /\ logit = <<>> /\ prob = <<>> /\ info = <<>>
    /\ icc_lines = <<>>
    /\ total_info = <<>> /\ item_info = <<>>
    /\ total_test_info = <<>>
    /\ se = <<>>
    /\ boundary_pts = <<>>
    /\ corr_matrix = <<>> /\ cum_log = <<>>
    /\ slides = <<>> /\ args = <<>>
    /\ files = <<>> /\ out = <<>>
    /\ err = "none"

Rule == "============================================================"

\* Save printing nothing.
SaveSilent(name) ==
    /\ files' = Append(files, name)
    /\ out' = out
\* plt.savefig(name); plt.close(); print("Created: " + name)
Save(name) ==
    /\ files' = Append(files, name)
    /\ out' = Append(out, "Created: " \o name)

\* An uncaught exception ends the program.
Raise(e) ==
    /\ err' = e
    /\ pc' = "raised"

\* ForItem as the spec describes it: invalid specifications are rejected.
ForItemValidating(at, body, done) ==
    /\ pc = at
    /\ IF idx < Len(irt)
       THEN LET it == irt[idx + 1]
            IN  /\ idx' = idx + 1
                /\ IF \/ Len(it.boundaries) = 0
                      \/ it.max_score - 1 # Len(it.boundaries)
                      \/ FLe(it.slope, FZero)
                   THEN /\ Raise("InvalidSpec")
                        /\ UNCHANGED <<i, k, cum_boundaries>>
                   ELSE /\ cum_boundaries' = CumInit(it.boundaries)
                        /\ i' = 1
                        /\ pc' = body
                        /\ UNCHANGED <<k, err>>
       ELSE /\ pc' = done
            /\ UNCHANGED <<loopv, err>>

\* ForItem with cum_boundaries = boundaries[:1], which never raises.
ForItemSlice(at, body, done) ==
    /\ pc = at
    /\ IF idx < Len(irt)
       THEN /\ idx' = idx + 1
            /\ cum_boundaries' = IF irt[idx + 1].boundaries = <<>> THEN <<>>
                                  ELSE <<irt[idx + 1].boundaries[1]>>
            /\ i' = 1
            /\ pc' = body
            /\ UNCHANGED <<k, err>>
       ELSE /\ pc' = done
            /\ UNCHANGED <<loopv, err>>

\* for idx, (item_name, params) in enumerate(IRT_PARAMS.items()): take the
\* next item and start its cumulative boundaries, or leave the loop.
ForItem(at, body, done) ==
    /\ pc = at
    /\ IF idx < Len(irt)
       THEN LET boundaries == irt[idx + 1].boundaries
            IN  /\ idx' = idx + 1
                /\ IF Len(boundaries) = 0
                   THEN /\ Raise("IndexError")
                        /\ UNCHANGED <<i, k, cum_boundaries>>
                   ELSE /\ cum_boundaries' = CumInit(boundaries)
                        /\ i' = 1
                        /\ pc' = body
                        /\ UNCHANGED <<k, err>>
       ELSE /\ pc' = done
            /\ UNCHANGED <<loopv, err>>

\* for i in range(1, len(boundaries)): one iteration, or the loop's exit.
CumLoop(at, next) ==
    /\ pc = at
    /\ LET boundaries == irt[idx].boundaries
       IN  IF i < Len(boundaries)
           THEN /\ cum_boundaries' = CumAppend(cum_boundaries, boundaries, i)
                /\ i' = i + 1
                /\ UNCHANGED <<pc, k>>
           ELSE /\ pc' = next
                /\ k' = 0
                /\ UNCHANGED <<i, cum_boundaries>>
    /\ cum_log' = IF i < Len(irt[idx].boundaries) THEN cum_log
                  ELSE Append(cum_log, <<at, idx, cum_boundaries>>)
    /\ UNCHANGED <<idx, err>>

\* max(slopes), of a non-empty list
RECURSIVE MaxOf(_)
MaxOf(xs) ==
    IF Len(xs) = 1 THEN xs[1]
    ELSE LET m == MaxOf(Tail(xs)) IN IF FLt(xs[1], m) THEN m ELSE xs[1]

\* ------------------------------------------------------------------------
\* main: the six create_* calls in order
\* ------------------------------------------------------------------------
MainHeader ==
    << Rule,
       "NONMEM IRT Model Infographics Generator",
       "Model: Cladribine in Multiple Sclerosis - EDSS IRT",
       "Reference: Novakovic et al., 2016",
       Rule,
       "",
       "Generating infographics...",
       "" >>

MainBegin ==
    /\ pc = "main"
    /\ out' = out \o MainHeader
    /\ pc' = "main_01"
    /\ UNCHANGED <<inputs, se, corr_matrix, cum_log, slides, args, loopv, iccv, infv,
                   total_test_info, boundary_pts, files, err>>

create_model_overview ==
    /\ pc = "main_01"
    /\ Save("infographic_01_model_structure.png")
    /\ pc' = "main_02"
    /\ UNCHANGED <<inputs, se, corr_matrix, cum_log, slides, args, loopv, iccv, infv,
                   total_test_info, boundary_pts, err>>

\* create_parameter_table saving under a name the deck builder does not ask for.
CreateParameterTableRenamed ==
    /\ pc = "main_02"
    /\ Save("infographic_02_parameter_table.png")
    /\ pc' = "main_03"
    /\ UNCHANGED <<inputs, se, corr_matrix, cum_log, slides, args, loopv, iccv, infv,
                   total_test_info, boundary_pts, err>>

create_parameter_table ==
    /\ pc = "main_02"
    /\ Save("infographic_02_parameters.png")
    /\ pc' = "main_03"
    /\ UNCHANGED <<inputs, se, corr_matrix, cum_log, slides, args, loopv, iccv, infv,
                   total_test_info, boundary_pts, err>>

\* The correlation parameters of the configuration, written in ten-thousandths.
COR_DIS_SLOPE == FromRat(1100, 10000)
COR_DIS_AGE == FromRat(2645, 10000)
COR_SLOPE_AGE == FromRat(1175, 10000)
COR_DIS_MSD == FromRat(2727, 10000)
COR_SLOPE_MSD == FromRat(896, 10000)
COR_AGE_MSD == FromRat(4582, 10000)
COR_DIS_EXNB == FromRat(391, 10000)
COR_SLOPE_EXNB == FromRat(695, 10000)
COR_AGE_EXNB == FromRat(0 - 914, 10000)
COR_MSD_EXNB == FromRat(0 - 1150, 10000)

labels == <<"Disability", "Slope", "Age", "MSD", "EXNB">>

\* np.eye(n): rows and columns are numbered from 1 here, from 0 in the source.
Eye(n) == [r \in 1..n |-> [c \in 1..n |-> IF r = c THEN FOne ELSE FromInt(0)]]

\* An assignment that reaches one side of the diagonal only; SetSym is not this.
SetUpper(m, r, c, v) == [m EXCEPT ![r + 1][c + 1] = v]

\* corr_matrix[r, c] = corr_matrix[c, r] = v, with the source's 0-based r and c.
SetSym(m, r, c, v) == [m EXCEPT ![r + 1][c + 1] = v, ![c + 1][r + 1] = v]

BuildCorrMatrix ==
    LET m0 == Eye(Len(labels))
        m1 == SetSym(m0, 0, 1, COR_DIS_SLOPE)
        m2 == SetSym(m1, 0, 2, COR_DIS_AGE)
        m3 == SetSym(m2, 0, 3, COR_DIS_MSD)
        m4 == SetSym(m3, 0, 4, COR_DIS_EXNB)
        m5 == SetSym(m4, 1, 2, COR_SLOPE_AGE)
        m6 == SetSym(m5, 1, 3, COR_SLOPE_MSD)
        m7 == SetSym(m6, 1, 4, COR_SLOPE_EXNB)
        m8 == SetSym(m7, 2, 3, COR_AGE_MSD)
        m9 == SetSym(m8, 2, 4, COR_AGE_EXNB)
    IN  SetSym(m9, 3, 4, COR_MSD_EXNB)

create_correlation_heatmap ==
    /\ pc = "main_03"
    /\ corr_matrix' = BuildCorrMatrix
    /\ Save("infographic_03_correlation_matrix.png")
    /\ pc' = "icc_begin"
    /\ UNCHANGED <<inputs, se, cum_log, slides, args, loopv, iccv, infv, total_test_info,
                   boundary_pts, err>>

\* ---- create_icc_curves ----
IccBegin ==
    /\ pc = "icc_begin"
    /\ idx' = 0
    /\ pc' = "icc_for"
    /\ UNCHANGED <<inputs, se, corr_matrix, cum_log, slides, args, i, k, cum_boundaries,
                   iccv, infv, total_test_info, boundary_pts, iov, err>>

IccForItem ==
    /\ ForItem("icc_for", "icc_cum", "icc_save")
    /\ icc_lines' = IF idx < Len(irt) THEN Append(icc_lines, <<>>) ELSE icc_lines
    /\ UNCHANGED <<inputs, se, corr_matrix, cum_log, slides, args, logit, prob, infv,
                   total_test_info, boundary_pts, iov>>

IccCumLoop ==
    /\ CumLoop("icc_cum", "icc_plot")
    /\ UNCHANGED <<inputs, se, corr_matrix, slides, args, iccv, infv, total_test_info,
                   boundary_pts, iov>>

\* for k, b in enumerate(cum_boundaries): logit, prob, ax.plot(..., label k+1)
IccPlot ==
    /\ pc = "icc_plot"
    /\ IF k < Len(cum_boundaries)
       THEN LET b == cum_boundaries[k + 1]
                lg == VLogit(irt[idx].slope, theta_range, b)
            IN  /\ logit' = lg
                /\ prob' = VProb(lg)
                /\ icc_lines' = [icc_lines EXCEPT
                                   ![idx] = Append(@, <<CurveLabel(k), VProb(lg)>>)]
                /\ k' = k + 1
                /\ UNCHANGED pc
       ELSE /\ pc' = "icc_for"
            /\ UNCHANGED <<k, iccv>>
    /\ UNCHANGED <<inputs, se, corr_matrix, cum_log, slides, args, idx, i, cum_boundaries,
                   infv, total_test_info, boundary_pts, iov, err>>

IccSave ==
    /\ pc = "icc_save"
    /\ Save("infographic_04_icc_curves.png")
    /\ pc' = "main_05"
    /\ UNCHANGED <<inputs, se, corr_matrix, cum_log, slides, args, loopv, iccv, infv,
                   total_test_info, boundary_pts, err>>

create_drug_effect_plot ==
    /\ pc = "main_05"
    /\ Save("infographic_05_drug_effects.png")
    /\ pc' = "sum_begin"
    /\ UNCHANGED <<inputs, se, corr_matrix, cum_log, slides, args, loopv, iccv, infv,
                   total_test_info, boundary_pts, err>>

\* ---- create_irt_summary ----
\* 1. bar chart: colors = RdYlGn([s / max(slopes) for s in slopes])
SummaryBegin ==
    /\ pc = "sum_begin"
    /\ LET slopes == [n \in 1..Len(irt) |-> irt[n].slope]
       IN  IF MaxOf(slopes) = FZero
           THEN /\ Raise("ZeroDivisionError")
                /\ UNCHANGED idx
           ELSE /\ pc' = "inf_for"
                /\ idx' = 0
                /\ UNCHANGED err
    /\ UNCHANGED <<inputs, se, corr_matrix, cum_log, slides, args, i, k, cum_boundaries,
                   iccv, infv, total_test_info, boundary_pts, iov>>

\* 3-4. item information curves
InfForItem ==
    /\ ForItem("inf_for", "inf_cum", "tst_begin")
    /\ UNCHANGED <<inputs, se, corr_matrix, cum_log, slides, args, iccv, infv,
                   total_test_info, boundary_pts, iov>>

\* InfCumLoop with total_info created once, before the loop over the items.
InfCumLoopNoReset ==
    /\ CumLoop("inf_cum", "inf_acc")
    /\ total_info' = IF total_info = <<>> THEN VZeros(theta_range) ELSE total_info
    /\ UNCHANGED <<inputs, se, corr_matrix, slides, args, iccv, info, item_info,
                   total_test_info, boundary_pts, iov>>

InfCumLoop ==
    /\ CumLoop("inf_cum", "inf_acc")
    /\ total_info' = IF i < Len(irt[idx].boundaries) THEN total_info
                     ELSE VZeros(theta_range)
    /\ UNCHANGED <<inputs, se, corr_matrix, slides, args, iccv, info, item_info,
                   total_test_info, boundary_pts, iov>>

\* for b in cum_boundaries: total_info += info; then ax3.plot(total_info)
InfAcc ==
    /\ pc = "inf_acc"
    /\ IF k < Len(cum_boundaries)
       THEN LET b == cum_boundaries[k + 1]
                lg == VLogit(irt[idx].slope, theta_range, b)
                nf == VInfo(irt[idx].slope, VProb(lg))
            IN  /\ logit' = lg
                /\ prob' = VProb(lg)
                /\ info' = nf
                /\ total_info' = Accumulate(total_info, nf)
                /\ k' = k + 1
                /\ UNCHANGED <<pc, item_info>>
       ELSE /\ item_info' = Append(item_info, <<irt[idx].name, total_info>>)
            /\ pc' = "inf_for"
            /\ UNCHANGED <<k, logit, prob, info, total_info>>
    /\ UNCHANGED <<inputs, se, corr_matrix, cum_log, slides, args, idx, i, cum_boundaries,
                   icc_lines, total_test_info, boundary_pts, iov, err>>

\* 5. total test information
TstBegin ==
    /\ pc = "tst_begin"
    /\ total_test_info' = VZeros(theta_range)
    /\ idx' = 0
    /\ pc' = "tst_for"
    /\ UNCHANGED <<inputs, se, corr_matrix, cum_log, slides, args, i, k, cum_boundaries,
                   iccv, infv, boundary_pts, iov, err>>

TstForItem ==
    /\ ForItem("tst_for", "tst_cum", "tst_se")
    /\ UNCHANGED <<inputs, se, corr_matrix, cum_log, slides, args, iccv, infv,
                   total_test_info, boundary_pts, iov>>

TstCumLoop ==
    /\ CumLoop("tst_cum", "tst_acc")
    /\ UNCHANGED <<inputs, se, corr_matrix, slides, args, iccv, infv, total_test_info,
                   boundary_pts, iov>>

\* TstAcc with slope in place of slope ** 2: a copy that drifted from the item loop.
TstAccNoSquare ==
    /\ pc = "tst_acc"
    /\ IF k < Len(cum_boundaries)
       THEN LET b == cum_boundaries[k + 1]
                lg == VLogit(irt[idx].slope, theta_range, b)
                nf == [g \in 1..Len(lg) |-> InfoNoSquare(irt[idx].slope, Prob(lg[g]))]
            IN  /\ logit' = lg
                /\ prob' = VProb(lg)
                /\ info' = nf
                /\ total_test_info' = Accumulate(total_test_info, nf)
                /\ k' = k + 1
                /\ UNCHANGED pc
       ELSE /\ pc' = "tst_for"
            /\ UNCHANGED <<k, logit, prob, info, total_test_info>>
    /\ UNCHANGED <<inputs, se, corr_matrix, cum_log, slides, args, idx, i, cum_boundaries,
                   icc_lines, total_info, item_info, boundary_pts, iov, err>>

TstAcc ==
    /\ pc = "tst_acc"
    /\ IF k < Len(cum_boundaries)
       THEN LET b == cum_boundaries[k + 1]
                lg == VLogit(irt[idx].slope, theta_range, b)
                nf == VInfo(irt[idx].slope, VProb(lg))
            IN  /\ logit' = lg
                /\ prob' = VProb(lg)
                /\ info' = nf
                /\ total_test_info' = Accumulate(total_test_info, nf)
                /\ k' = k + 1
                /\ UNCHANGED pc
       ELSE /\ pc' = "tst_for"
            /\ UNCHANGED <<k, logit, prob, info, total_test_info>>
    /\ UNCHANGED <<inputs, se, corr_matrix, cum_log, slides, args, idx, i, cum_boundaries,
                   icc_lines, total_info, item_info, boundary_pts, iov, err>>

\* Standard error of measurement, drawn on the twin axis
SeCompute ==
    /\ pc = "tst_se"
    /\ se' = VStdErr(total_test_info)
    /\ pc' = "loc_begin"
    /\ UNCHANGED <<inputs, corr_matrix, cum_log, slides, args, loopv, iccv, infv,
                   total_test_info, boundary_pts, iov, err>>

\* 6. boundary locations
LocBegin ==
    /\ pc = "loc_begin"
    /\ idx' = 0
    /\ pc' = "loc_for"
    /\ UNCHANGED <<inputs, se, corr_matrix, cum_log, slides, args, i, k, cum_boundaries,
                   iccv, infv, total_test_info, boundary_pts, iov, err>>

LocForItem ==
    /\ ForItem("loc_for", "loc_cum", "sum_save")
    /\ UNCHANGED <<inputs, se, corr_matrix, cum_log, slides, args, iccv, infv,
                   total_test_info, boundary_pts, iov>>

\* LocCumLoop reading boundaries[i - 1]: a fourth copy that differs from the others.
LocCumLoopOffByOne ==
    /\ pc = "loc_cum"
    /\ LET boundaries == irt[idx].boundaries
       IN  IF i < Len(boundaries)
           THEN /\ cum_boundaries' = CumAppendOffByOne(cum_boundaries, boundaries, i)
                /\ i' = i + 1
                /\ UNCHANGED <<pc, k, cum_log>>
           ELSE /\ pc' = "loc_plot"
                /\ k' = 0
                /\ cum_log' = Append(cum_log, <<"loc_cum", idx, cum_boundaries>>)
                /\ UNCHANGED <<i, cum_boundaries>>
    /\ UNCHANGED <<inputs, se, corr_matrix, slides, args, iccv, infv, total_test_info,
                   boundary_pts, idx, err, files, out>>

LocCumLoop ==
    /\ CumLoop("loc_cum", "loc_plot")
    /\ UNCHANGED <<inputs, se, corr_matrix, slides, args, iccv, infv, total_test_info,
                   boundary_pts, iov>>

\* ax5.scatter(b, idx) for every threshold, then the connecting line
LocPlot ==
    /\ pc = "loc_plot"
    /\ boundary_pts' = Append(boundary_pts, cum_boundaries)
    /\ pc' = "loc_for"
    /\ UNCHANGED <<inputs, se, corr_matrix, cum_log, slides, args, loopv, iccv, infv,
                   total_test_info, iov, err>>

SummarySave ==
    /\ pc = "sum_save"
    /\ Save("infographic_06_irt_summary.png")
    /\ pc' = "main_end"
    /\ UNCHANGED <<inputs, se, corr_matrix, cum_log, slides, args, loopv, iccv, infv,
                   total_test_info, boundary_pts, err>>

MainFooter ==
    << "",
       Rule,
       "All infographics generated successfully!",
       Rule,
       "",
       "Generated files:",
       "  1. infographic_01_model_structure.png",
       "  2. infographic_02_parameters.png",
       "  3. infographic_03_correlation_matrix.png",
       "  4. infographic_04_icc_curves.png",
       "  5. infographic_05_drug_effects.png",
       "  6. infographic_06_irt_summary.png" >>

MainEnd ==
    /\ pc = "main_end"
    /\ out' = out \o MainFooter
    /\ pc' = "done"
    /\ UNCHANGED <<inputs, se, corr_matrix, cum_log, slides, args, loopv, iccv, infv,
                   total_test_info, boundary_pts, files, err>>

Next ==
    \/ MainBegin
    \/ create_model_overview
    \/ create_parameter_table
    \/ create_correlation_heatmap
    \/ IccBegin
    \/ IccForItem
    \/ IccCumLoop
    \/ IccPlot
    \/ IccSave
    \/ create_drug_effect_plot
    \/ SummaryBegin
    \/ InfForItem
    \/ InfCumLoop
    \/ InfAcc
    \/ TstBegin
    \/ TstForItem
    \/ TstCumLoop
    \/ TstAcc
    \/ SeCompute
    \/ LocBegin
    \/ LocForItem
    \/ LocCumLoop
    \/ LocPlot
    \/ SummarySave
    \/ MainEnd

Spec == Init /\ [][Next]_vars

\* The files the six create_* functions write, in main's order.
Infographics ==
    << "infographic_01_model_structure.png",
       "infographic_02_parameters.png",
       "infographic_03_correlation_matrix.png",
       "infographic_04_icc_curves.png",
       "infographic_05_drug_effects.png",
       "infographic_06_irt_summary.png" >>

\* ------------------------------------------------------------------------
\* generate_pptx.py: main builds the deck slide by slide and saves it
\* ------------------------------------------------------------------------
\* What the deck builder leaves alone: the state of the infographics generator.
genv == <<inputs, se, loopv, iccv, infv, total_test_info, boundary_pts, corr_matrix, cum_log,
          args, err>>

output_file == "NONMEM_IRT_Model_Infographics.pptx"

\* The image files of the working directory: those named in files.
IsImageFile(path) == \E n \in 1..Len(files) : files[n] = path

\* os.path.exists(path), in the working directory: true of a file in it and of
\* the directory itself, which is not an image file.
Exists(path) == path = "." \/ IsImageFile(path)

\* A slide made by one of the functions that take no image: its title text.
TextSlide(by, title) ==
    [by |-> by, title |-> title, subtitle |-> <<>>, pictures |-> <<>>, bullets |-> <<>>]

\* The paragraphs of notes_content: the text frame starts with one empty
\* paragraph, which the first note fills; every further note adds one. The
\* text of a note's paragraph is the bullet mark, a space and the note,
\* written here as the pair of the mark's name and the note.
NoteParagraphs(notes) ==
    IF notes = <<>> THEN <<"">> ELSE [n \in 1..Len(notes) |-> <<"bullet", notes[n]>>]

\* The shapes before the picture: title bar, title, and the subtitle box if
\* subtitle is not empty.
HeadShapes(subtitle) ==
    <<"title_bar", "title_box">> \o (IF subtitle # "" THEN <<"subtitle_box">> ELSE <<>>)

\* ImageSlide without the test of os.path.exists.
ImageSlideUnguarded(image_path, title, subtitle, notes) ==
    [by |-> "add_image_slide_with_notes",
     title |-> title,
     subtitle |-> IF subtitle # "" THEN <<subtitle>> ELSE <<>>,
     pictures |-> <<image_path>>,
     bullets |-> notes,
     shapes |-> HeadShapes(subtitle) \o <<"picture">>
                \o <<"notes_box", "notes_header", "notes_content">>,
     paragraphs |-> NoteParagraphs(notes)]

\* The slide of add_image_slide_with_notes: title bar and title, the subtitle
\* box if subtitle is not empty, the picture if the image file exists, the
\* notes panel with one bullet paragraph per note.
ImageSlide(image_path, title, subtitle, notes) ==
    [by |-> "add_image_slide_with_notes",
     title |-> title,
     subtitle |-> IF subtitle # "" THEN <<subtitle>> ELSE <<>>,
     pictures |-> IF Exists(image_path) THEN <<image_path>> ELSE <<>>,
     bullets |-> notes,
     shapes |-> HeadShapes(subtitle)
                \o (IF Exists(image_path) THEN <<"picture">> ELSE <<>>)
                \o <<"notes_box", "notes_header", "notes_content">>,
     paragraphs |-> NoteParagraphs(notes)]

\* The slide left behind when add_picture raises on a path that exists but is
\* not an image file: what was added before the picture, and nothing after.
ImageSlideCut(image_path, title, subtitle, notes) ==
    [by |-> "add_image_slide_with_notes",
     title |-> title,
     subtitle |-> IF subtitle # "" THEN <<subtitle>> ELSE <<>>,
     pictures |-> <<>>,
     bullets |-> <<>>,
     shapes |-> HeadShapes(subtitle),
     paragraphs |-> <<>>]

\* print(announcement); then the call that appends one slide
AddSlide(at, next, announcement, slide) ==
    /\ pc = at
    /\ out' = Append(out, announcement)
    /\ slides' = Append(slides, slide)
    /\ pc' = next
    /\ UNCHANGED <<genv, files>>

add_image_slide_with_notes(at, next, announcement, image_path, title, subtitle, notes) ==
    IF Exists(image_path) /\ ~IsImageFile(image_path)
    THEN /\ pc = at
         /\ out' = Append(out, announcement)
         /\ slides' = Append(slides, ImageSlideCut(image_path, title, subtitle, notes))
         /\ Raise("OSError")
         /\ UNCHANGED <<inputs, se, loopv, iccv, infv, total_test_info, boundary_pts,
                        corr_matrix, cum_log, args, files>>
    ELSE AddSlide(at, next, announcement, ImageSlide(image_path, title, subtitle, notes))

DeckHeader ==
    << Rule,
       "Generating Enhanced PowerPoint Presentation",
       "with Detailed Discussions and Interpretations",
       Rule,
       "" >>

\* The header lines, then prs = Presentation()
DeckBegin ==
    /\ pc = "deck_main"
    /\ out' = out \o DeckHeader
    /\ slides' = <<>>
    /\ pc' = "slide_1"
    /\ UNCHANGED <<genv, files>>

add_title_slide ==
    AddSlide("slide_1", "slide_2",
        "Creating slide 1: Title...",
        TextSlide("add_title_slide",
                  "IRT Model for EDSS in Multiple Sclerosis"))

add_agenda_slide ==
    AddSlide("slide_2", "slide_3",
        "Creating slide 2: Agenda...",
        TextSlide("add_agenda_slide",
                  "Presentation Overview"))

add_background_slide ==
    AddSlide("slide_3", "slide_4",
        "Creating slide 3: Clinical Background...",
        TextSlide("add_background_slide",
                  "Clinical Background: Multiple Sclerosis & EDSS"))

ModelStructureImage ==
    add_image_slide_with_notes("slide_4", "slide_5",
        "Creating slide 4: Model Structure (with notes)...",
        "infographic_01_model_structure.png",
        "Model Structure Overview",
        "Longitudinal IRT Model Architecture",
        << "Central latent variable (PD) represents true underlying disability",
           "Power model captures non-linear disease progression over time",
           "Two distinct drug effect mechanisms: symptomatic and protective",
           "FREM approach incorporates Age, MS Duration, Exacerbation count as covariates",
           "8 functional systems linked via IRT graded response model",
           "Cholesky decomposition ensures valid correlation structure" >>)

add_model_structure_discussion ==
    AddSlide("slide_5", "slide_6",
        "Creating slide 5: Model Structure Discussion...",
        TextSlide("add_model_structure_discussion",
                  "Model Structure: Mathematical Framework"))

ParameterEstimatesImage ==
    add_image_slide_with_notes("slide_6", "slide_7",
        "Creating slide 6: Parameter Estimates (with notes)...",
        "infographic_02_parameters.png",
        "Parameter Estimates Summary",
        "Population Parameters and Variability",
        << "Disease progression slope (0.093) indicates slow accumulation of disability",
           "Power < 1 (0.71) suggests decelerating progression over time",
           "Large variance in Age (99.3) reflects patient heterogeneity",
           "Ambulation has highest discrimination (3.64) - most informative subscore",
           "Visual has lowest discrimination (0.44) - less reliable indicator",
           "OFV = 418.626 for model evaluation" >>)

CorrelationMatrixImage ==
    add_image_slide_with_notes("slide_7", "slide_8",
        "Creating slide 7: Correlation Matrix (with notes)...",
        "infographic_03_correlation_matrix.png",
        "Random Effects Correlation Structure",
        "Cholesky Parameterization of 5x5 Omega Matrix",
        << "Age-MSD correlation (0.46) is clinically expected and validates the model",
           "Disability correlates weakly with Age (0.26) and MSD (0.27)",
           "Slope shows minimal correlation with covariates (good for identifiability)",
           "Negative EXNB correlations may reflect disease phase transitions",
           "Overall weak correlations support parameter estimability",
           "FREM enables covariate effects without traditional covariate modeling" >>)

add_correlation_discussion ==
    AddSlide("slide_8", "slide_9",
        "Creating slide 8: Correlation Discussion...",
        TextSlide("add_correlation_discussion",
                  "Random Effects: Clinical Interpretation of Correlations"))

IccCurvesImage ==
    add_image_slide_with_notes("slide_9", "slide_10",
        "Creating slide 9: ICC Curves (with notes)...",
        "infographic_04_icc_curves.png",
        "Item Characteristic Curves",
        "Probability of Scoring >= k at Each Disability Level",
        << "Steeper curves = higher discrimination = better differentiation",
           "Ambulation shows sharp transitions - excellent disability marker",
           "Visual shows gradual curves - less sensitive to changes",
           "Curve spacing indicates boundary (threshold) locations",
           "Items most informative where curves are steepest",
           "Can guide selection of endpoints for clinical trials" >>)

\* high_items with Brainstem in place of Cerebellar.
HighItemsOther == << <<"Ambulation", 364>>, <<"Pyramidal", 317>>, <<"Brainstem", 104>> >>
\* high_items, under "High Discrimination Items (slope > 2.5)": the first
\* element of each entry, such as "Ambulation (3.64)", as <<name, hundredths>>
high_items == << <<"Ambulation", 364>>, <<"Pyramidal", 317>>, <<"Cerebellar", 287>> >>
\* low_items, under "Lower Discrimination Items (slope < 1.5)"
low_items == << <<"Visual", 44>>, <<"Mental", 91>>, <<"Sensory", 99>> >>

add_irt_interpretation_slide ==
    AddSlide("slide_10", "slide_11",
        "Creating slide 10: IRT Interpretation...",
        TextSlide("add_irt_interpretation_slide",
                  "IRT Analysis: Clinical Implications of Item Parameters")
            @@ [high_items |-> high_items, low_items |-> low_items])

DrugEffectsImage ==
    add_image_slide_with_notes("slide_11", "slide_12",
        "Creating slide 11: Drug Effects (with notes)...",
        "infographic_05_drug_effects.png",
        "Cladribine Drug Effects",
        "Symptomatic and Disease-Modifying Mechanisms",
        << "Emax model: saturable symptomatic effect with exposure",
           "EC50 = 408.29 guides dosing for optimal symptomatic relief",
           "Protective effect (20.9%) acts on progression rate, not absolute level",
           "Combined effects separate over time - greatest benefit long-term",
           "Model supports both immediate benefit and disease modification claims",
           "Enables simulation of various dosing regimens" >>)

add_drug_effect_discussion ==
    AddSlide("slide_12", "slide_13",
        "Creating slide 12: Drug Effect Discussion...",
        TextSlide("add_drug_effect_discussion",
                  "Cladribine: Dual Mechanism Drug Effects"))

IrtSummaryImage ==
    add_image_slide_with_notes("slide_13", "slide_14",
        "Creating slide 13: IRT Summary (with notes)...",
        "infographic_06_irt_summary.png",
        "IRT Item Parameter Analysis",
        "Discrimination, Information, and Boundary Thresholds",
        << "Test Information Function peaks around theta = 2-3 (moderate disability)",
           "Less precision at extremes (very low or very high disability)",
           "Ambulation boundaries span wide theta range (0-9 score range)",
           "Item information curves show where each subscore is most useful",
           "Standard error inversely related to information",
           "Results support IRT as superior to simple sum scoring" >>)

add_summary_slide ==
    AddSlide("slide_14", "slide_15",
        "Creating slide 14: Summary...",
        TextSlide("add_summary_slide",
                  "Summary: Key Findings & Clinical Implications"))

add_references_slide ==
    AddSlide("slide_15", "deck_save",
        "Creating slide 15: References...",
        TextSlide("add_references_slide",
                  "References & Further Reading"))

\* DeckSave before the last slide has been added.
DeckSaveEarly ==
    /\ pc = "slide_15"
    /\ files' = Append(files, output_file)
    /\ pc' = "deck_end"
    /\ UNCHANGED <<genv, slides, out>>

\* prs.save(output_file)
DeckSave ==
    /\ pc = "deck_save"
    /\ files' = Append(files, output_file)
    /\ pc' = "deck_end"
    /\ UNCHANGED <<genv, slides, out>>

DeckFooter ==
    << "",
       Rule,
       "PowerPoint presentation saved: " \o output_file,
       Rule,
       "",
       "Slides included (15 total):",
       "  1.  Title Slide",
       "  2.  Presentation Overview / Agenda",
       "  3.  Clinical Background: MS & EDSS",
       "  4.  Model Structure (Image + Key Points)",
       "  5.  Model Structure: Mathematical Framework",
       "  6.  Parameter Estimates (Image + Key Points)",
       "  7.  Correlation Matrix (Image + Key Points)",
       "  8.  Correlation: Clinical Interpretation",
       "  9.  ICC Curves (Image + Key Points)",
       "  10. IRT Analysis: Clinical Implications",
       "  11. Drug Effects (Image + Key Points)",
       "  12. Dual Mechanism Drug Effects Discussion",
       "  13. IRT Summary (Image + Key Points)",
       "  14. Summary: Key Findings",
       "  15. References & Further Reading" >>

DeckEnd ==
    /\ pc = "deck_end"
    /\ out' = out \o DeckFooter
    /\ pc' = "deck_done"
    /\ UNCHANGED <<genv, slides, files>>

\* The subsequence of xs at the positions in S.
RECURSIVE Pick(_, _, _)
Pick(xs, S, n) ==
    IF n > Len(xs) THEN <<>>
    ELSE (IF n \in S THEN <<xs[n]>> ELSE <<>>) \o Pick(xs, S, n + 1)

\* The deck builder starts in a directory holding any of the infographics.
DeckInit ==
    /\ irt = IRT_PARAMS
    /\ theta_range = ThetaRange
    /\ pc = "deck_main"
    /\ idx = 0 /\ i = 0 /\ k = 0
    /\ cum_boundaries = <<>>
    /\ logit = <<>> /\ prob = <<>> /\ info = <<>>
    /\ icc_lines = <<>>
    /\ total_info = <<>> /\ item_info = <<>>
    /\ total_test_info = <<>>
    /\ se = <<>>
    /\ boundary_pts = <<>>
    /\ corr_matrix = <<>> /\ cum_log = <<>>
    /\ slides = <<>> /\ args = <<>>
    /\ files \in {Pick(Infographics, S, 1) : S \in SUBSET (1..Len(Infographics))}
    /\ out = <<>>
    /\ err = "none"

DeckNext ==
    \/ DeckBegin
    \/ add_title_slide
    \/ add_agenda_slide
    \/ add_background_slide
    \/ ModelStructureImage
    \/ add_model_structure_discussion
    \/ ParameterEstimatesImage
    \/ CorrelationMatrixImage
    \/ add_correlation_discussion
    \/ IccCurvesImage
    \/ add_irt_interpretation_slide
    \/ DrugEffectsImage
    \/ add_drug_effect_discussion
    \/ IrtSummaryImage
    \/ add_summary_slide
    \/ add_references_slide
    \/ DeckSave
    \/ DeckEnd

DeckSpec == DeckInit /\ [][DeckNext]_vars

\* ------------------------------------------------------------------------
\* add_image_slide_with_notes called on its own, with any arguments
\* ------------------------------------------------------------------------
MaxNotes == 2
MaxSlides == 2

NoteTexts == {"Central latent variable", "Power model"}
ImagePaths == {"infographic_01_model_structure.png", "."}
Subtitles == {"", "Longitudinal IRT Model Architecture"}

\* A presentation without slides, in a directory with or without the image.
SlideInit ==
    /\ irt = IRT_PARAMS
    /\ theta_range = ThetaRange
    /\ pc = "slide_call"
    /\ idx = 0 /\ i = 0 /\ k = 0
    /\ cum_boundaries = <<>>
    /\ logit = <<>> /\ prob = <<>> /\ info = <<>>
    /\ icc_lines = <<>>
    /\ total_info = <<>> /\ item_info = <<>>
    /\ total_test_info = <<>>
    /\ se = <<>>
    /\ boundary_pts = <<>>
    /\ corr_matrix = <<>> /\ cum_log = <<>>
    /\ slides = <<>> /\ args = <<>>
    /\ files \in {<<>>, <<"infographic_01_model_structure.png">>}
    /\ out = <<>>
    /\ err = "none"

\* One call add_image_slide_with_notes(prs, image_path, title, subtitle, notes)
\* by a caller that does not catch what the call raises.
CallImageSlide ==
    /\ pc = "slide_call"
    /\ Len(slides) < MaxSlides
    /\ \E image_path \in ImagePaths, subtitle \in Subtitles,
          notes \in SeqsUpTo(NoteTexts, MaxNotes) :
          /\ args' = <<image_path, "Model Structure Overview", subtitle, notes>>
          /\ IF Exists(image_path) /\ ~IsImageFile(image_path)
             THEN /\ slides' = Append(slides, ImageSlideCut(image_path,
                                     "Model Structure Overview", subtitle, notes))
                  /\ Raise("OSError")
             ELSE /\ slides' = Append(slides, ImageSlide(image_path,
                                     "Model Structure Overview", subtitle, notes))
                  /\ UNCHANGED <<pc, err>>
    /\ UNCHANGED <<inputs, se, loopv, iccv, infv, total_test_info, boundary_pts,
                   corr_matrix, cum_log, files, out>>

SlideNext == CallImageSlide

SlideSpec == SlideInit /\ [][SlideNext]_vars

\* ------------------------------------------------------------------------
\* generate_nonmem_infographics.py, then generate_pptx.py in the same directory
\* ------------------------------------------------------------------------
\* The generator starts with the configured items in an empty directory.
BothInit == Init /\ irt = IRT_PARAMS

\* The generator has ended without error; the deck builder is started as a
\* new process, with its own output, in the directory the generator wrote to.
StartDeckBuilder ==
    /\ pc = "done"
    /\ pc' = "deck_main"
    /\ out' = <<>>
    /\ UNCHANGED <<genv, slides, files>>

BothNext == Next \/ StartDeckBuilder \/ DeckNext

BothSpec == BothInit /\ [][BothNext]_vars

\* ------------------------------------------------------------------------
\* Properties
\* ------------------------------------------------------------------------
Half == FromRat(1, 2)

\* The positions at which irt[idx] is the item being evaluated.
CumPcs == {"icc_cum", "inf_cum", "tst_cum", "loc_cum"}
BodyPcs == {"icc_plot", "inf_acc", "tst_acc", "loc_plot"}
InItem == pc \in CumPcs \cup BodyPcs

\* boundaries[0] + boundaries[1] + ... + boundaries[j-1], summed left to right
RECURSIVE SumTo(_, _)
SumTo(bs, j) == IF j = 1 THEN bs[1] ELSE FAdd(SumTo(bs, j - 1), bs[j])

\* C1: once the cumulative loop of an item has run, cum_boundaries has the
\* length of boundaries and its element i is the sum of boundaries[0..i];
\* while the loop runs, the i thresholds computed so far are those sums.
Thm_C1 ==
    InItem =>
        LET bs == irt[idx].boundaries
        IN  /\ pc \in BodyPcs => Len(cum_boundaries) = Len(bs)
            /\ pc \in CumPcs => Len(cum_boundaries) = i
            /\ \A j \in 1..Len(cum_boundaries) : cum_boundaries[j] = SumTo(bs, j)

\* C1 witness: an item with several offsets whose loop has appended.
Wit_C1 ==
    /\ pc = "icc_plot"
    /\ Len(cum_boundaries) >= 2
    /\ cum_boundaries[2] # cum_boundaries[1]

\* C2 (as stated): every entry of IRT_PARAMS the program evaluates has
\* len(boundaries) = max_score - 1 and slope > 0.
Cx_C2 ==
    (irt = IRT_PARAMS /\ InItem) =>
        /\ Len(irt[idx].boundaries) = irt[idx].max_score - 1
        /\ FLt(FZero, irt[idx].slope)

\* C2 (amended): every entry of IRT_PARAMS the program evaluates has
\* len(boundaries) = max_score and slope > 0.
Thm_C2 ==
    (irt = IRT_PARAMS /\ InItem) =>
        /\ Len(irt[idx].boundaries) = irt[idx].max_score
        /\ FLt(FZero, irt[idx].slope)

\* C2 witness: the last entry of IRT_PARAMS is being plotted.
Wit_C2 ==
    /\ irt = IRT_PARAMS
    /\ pc = "icc_plot"
    /\ idx = Len(IRT_PARAMS)
    /\ k > 0

\* An item specification the spec calls invalid for its max_score or slope.
BadSpec(it) ==
    \/ it.max_score - 1 # Len(it.boundaries)
    \/ FLe(it.slope, FZero)

ProbAt == pc \in {"icc_plot", "inf_acc", "tst_acc"} /\ k > 0
CurSlope == irt[idx].slope
CurB == cum_boundaries[k]
GridIx == 1..Len(theta_range)

\* C5 (as stated): for a > 0 every computed P lies strictly between 0 and 1.
Cx_C5 ==
    (ProbAt /\ FLt(FZero, CurSlope)) =>
        \A g \in GridIx : FLt(FZero, prob[g]) /\ FLt(prob[g], FOne)

\* C6: for a > 0, P computed at a grid point equal to the threshold b is
\* exactly 0.5; and every threshold drawn in the boundary-location panel is a
\* theta at which the category probability evaluates to 0.5.
Thm_C6 ==
    /\ (ProbAt /\ FLt(FZero, CurSlope)) =>
           \A g \in GridIx : theta_range[g] = CurB => prob[g] = Half
    /\ \A n \in 1..Len(boundary_pts) :
           FLt(FZero, irt[n].slope) =>
               \A j \in 1..Len(boundary_pts[n]) :
                   Prob(Logit(irt[n].slope, boundary_pts[n][j], boundary_pts[n][j])) = Half

\* C6 witness: a grid point equals a non-zero threshold of an item with a > 0,
\* and the probabilities for that threshold have been computed.
Wit_C6 ==
    /\ ProbAt
    /\ FLt(FZero, CurSlope)
    /\ CurB # FZero
    /\ \E g \in GridIx : theta_range[g] = CurB /\ prob[g] = Half

\* C7 (as stated): for a > 0, theta1 < theta2 on the grid gives P(theta1) < P(theta2).
Cx_C7 ==
    (ProbAt /\ FLt(FZero, CurSlope)) =>
        \A g1, g2 \in GridIx :
            FLt(theta_range[g1], theta_range[g2]) => FLt(prob[g1], prob[g2])

\* C7 (amended): for a > 0, P is non-decreasing in theta: theta1 < theta2 on
\* the grid gives P(theta1) <= P(theta2).
Thm_C7 ==
    (ProbAt /\ FLt(FZero, CurSlope)) =>
        \A g1, g2 \in GridIx :
            FLt(theta_range[g1], theta_range[g2]) => FLe(prob[g1], prob[g2])

\* C7 witness: a curve for a > 0 that rises between two grid points and is
\* flat between two others.
Wit_C7 ==
    /\ ProbAt
    /\ FLt(FZero, CurSlope)
    /\ \E g1, g2 \in GridIx : FLt(theta_range[g1], theta_range[g2]) /\ FLt(prob[g1], prob[g2])
    /\ \E g1, g2 \in GridIx : FLt(theta_range[g1], theta_range[g2]) /\ prob[g1] = prob[g2]

\* Grid points g1, g2 are b + d and b - d for one d.
Mirrored(g1, g2) ==
    LET d == FSub(theta_range[g1], CurB)
    IN  /\ theta_range[g1] = FAdd(CurB, d)
        /\ theta_range[g2] = FSub(CurB, d)
        /\ FSub(theta_range[g2], CurB) = FNeg(d)

\* C8 (as stated): for a > 0, P(b + d) + P(b - d) = 1 exactly.
Cx_C8 ==
    (ProbAt /\ FLt(FZero, CurSlope)) =>
        \A g1, g2 \in GridIx :
            Mirrored(g1, g2) => FAdd(prob[g1], prob[g2]) = FOne

\* Four units in the last place of the significand, at 1.
SymTol == FromRat(4, MantHi)

\* C8 (amended): for a > 0, P(b + d) + P(b - d) differs from 1 by rounding
\* error only (at most four units in the last place), and is 1 for d = 0.
Thm_C8 ==
    (ProbAt /\ FLt(FZero, CurSlope)) =>
        \A g1, g2 \in GridIx :
            Mirrored(g1, g2) =>
                /\ FLe(FAbs(FSub(FAdd(prob[g1], prob[g2]), FOne)), SymTol)
                /\ g1 = g2 => FAdd(prob[g1], prob[g2]) = FOne

\* C8 witness: a mirrored pair with d # 0 whose probabilities are not the
\* saturated 0 and 1.
Wit_C8 ==
    /\ ProbAt
    /\ FLt(FZero, CurSlope)
    /\ \E g1, g2 \in GridIx :
           /\ g1 # g2
           /\ Mirrored(g1, g2)
           /\ FLt(prob[g1], FOne)
           /\ FLt(prob[g2], FOne)

\* An information array has been computed for threshold b of item irt[idx].
InfoAt == pc \in {"inf_acc", "tst_acc"} /\ k > 0
\* a^2 / 4
QuarterSq(a) == FDiv(FMul(a, a), FromInt(4))
\* One unit in the last place of the significand, at 1.
Ulp1 == FromRat(2, MantHi)

\* C9 (as stated): for a > 0 the information of one threshold is a^2 / 4 at
\* theta = b and strictly smaller at every other theta.
Cx_C9 ==
    (InfoAt /\ FLt(FZero, CurSlope)) =>
        \A g \in GridIx :
            /\ theta_range[g] = CurB => info[g] = QuarterSq(CurSlope)
            /\ theta_range[g] # CurB => FLt(info[g], QuarterSq(CurSlope))

\* C9 (amended): for a > 0 the information of one threshold is exactly
\* a^2 / 4 at theta = b; at no theta does it exceed a^2 / 4 by more than one
\* unit in the last place; and it is strictly smaller than a^2 / 4 wherever
\* |a * (theta - b)| >= 1.
Thm_C9 ==
    (InfoAt /\ FLt(FZero, CurSlope)) =>
        \A g \in GridIx :
            /\ theta_range[g] = CurB => info[g] = QuarterSq(CurSlope)
            /\ FLe(info[g], FMul(QuarterSq(CurSlope), FAdd(FOne, Ulp1)))
            /\ FLe(FOne, FAbs(logit[g])) => FLt(info[g], QuarterSq(CurSlope))

\* C9 witness: for a > 0 and a # 1, one grid point is the threshold and
\* another lies at |a * (theta - b)| >= 1.
Wit_C9 ==
    /\ InfoAt
    /\ FLt(FZero, CurSlope)
    /\ CurSlope # FOne
    /\ \E g \in GridIx : theta_range[g] = CurB
    /\ \E g \in GridIx : FLe(FOne, FAbs(logit[g])) /\ FLt(FZero, info[g])

\* The information of an item with slope a and thresholds ths at theta:
\* a^2 P (1 - P) summed over the first n thresholds in order, starting from acc.
Thresholds(bs) == [j \in 1..Len(bs) |-> SumTo(bs, j)]
RECURSIVE SumInfo(_, _, _, _, _)
SumInfo(a, ths, n, theta, acc) ==
    IF n = 0 THEN acc
    ELSE FAdd(SumInfo(a, ths, n - 1, theta, acc), Info(a, Prob(Logit(a, theta, ths[n]))))
ItemInfoOf(it, grid) ==
    LET ths == Thresholds(it.boundaries)
    IN  [g \in 1..Len(grid) |-> SumInfo(it.slope, ths, Len(ths), grid[g], FZero)]
RECURSIVE TestInfoOf(_, _, _)
TestInfoOf(items, n, grid) ==
    IF n = 0 THEN VZeros(grid)
    ELSE LET ths == Thresholds(items[n].boundaries)
             before == TestInfoOf(items, n - 1, grid)
         IN  [g \in 1..Len(grid) |->
                 SumInfo(items[n].slope, ths, Len(ths), grid[g], before[g])]

\* C10: the information curve drawn for an item is, at every grid point, the
\* sum of a^2 P (1 - P) over that item's thresholds; the test information is,
\* at every grid point, the sum over every threshold of every item taken so
\* far, and of the whole battery once the loop has ended.
Thm_C10 ==
    /\ (pc = "inf_for" /\ idx >= 1) =>
           /\ Len(item_info) = idx
           /\ item_info[idx] = <<irt[idx].name, ItemInfoOf(irt[idx], theta_range)>>
    /\ pc \in {"tst_begin", "done"} =>
           \A n \in 1..Len(irt) :
               item_info[n] = <<irt[n].name, ItemInfoOf(irt[n], theta_range)>>
    /\ pc = "tst_for" => total_test_info = TestInfoOf(irt, idx, theta_range)
    /\ pc \in {"loc_begin", "done"} =>
           total_test_info = TestInfoOf(irt, Len(irt), theta_range)

\* C10 witness: all of IRT_PARAMS has been summed, item by item and in total.
Wit_C10 ==
    /\ irt = IRT_PARAMS
    /\ pc = "loc_begin"
    /\ Len(item_info) = Len(IRT_PARAMS)
    /\ \E g \in GridIx : FLt(item_info[1][2][g], total_test_info[g])

\* The standard error has been computed.
SeDone == se # <<>>
\* 1 / sqrt(1e-10): the standard error where no information is left.
SeAtZero == FDiv(FOne, FSqrt(Eps))

Cx_C12 ==
    SeDone =>
        \A g \in GridIx :
            FLt(FZero, total_test_info[g]) =>
                se[g] = FDiv(FOne, FSqrt(total_test_info[g]))

\* C12: where the total information is positive the standard error is
\* 1 / sqrt(total information + 1e-10), which is never above
\* 1 / sqrt(total information).
Thm_C12 ==
    SeDone =>
        \A g \in GridIx :
            FLt(FZero, total_test_info[g]) =>
                /\ se[g] = FDiv(FOne, FSqrt(FAdd(total_test_info[g], Eps)))
                /\ FLe(se[g], FDiv(FOne, FSqrt(total_test_info[g])))

\* C12 witness: a positive total information whose standard error is below
\* 1 / sqrt(total information).
Wit_C12 ==
    /\ SeDone
    /\ \E g \in GridIx :
           /\ FLt(FZero, total_test_info[g])
           /\ FLt(se[g], FDiv(FOne, FSqrt(total_test_info[g])))

NonDecreasing(xs) == \A j \in 2..Len(xs) : FLe(xs[j - 1], xs[j])
AllNonNegative(xs) == \A j \in 1..Len(xs) : FLe(FZero, xs[j])

\* C13 as stated: for an item with max_score - 1 boundaries and a positive
\* slope, the cumulative thresholds are non-decreasing exactly when every
\* boundary offset is non-negative.
Cx_C13 ==
    (/\ pc \in BodyPcs
     /\ irt[idx].max_score - 1 = Len(irt[idx].boundaries)
     /\ FLt(FZero, irt[idx].slope)) =>
        (NonDecreasing(cum_boundaries) <=> AllNonNegative(irt[idx].boundaries))

\* C13: a threshold is not below its predecessor when the offset added is
\* non-negative and not above it when the offset is non-positive; so the
\* thresholds are non-decreasing whenever every offset after the first is
\* non-negative, whatever the sign of the first.
Thm_C13 ==
    InItem =>
        LET bs == irt[idx].boundaries
        IN  /\ \A j \in 2..Len(cum_boundaries) :
                   /\ FLe(FZero, bs[j]) => FLe(cum_boundaries[j - 1], cum_boundaries[j])
                   /\ FLe(bs[j], FZero) => FLe(cum_boundaries[j], cum_boundaries[j - 1])
            /\ (pc \in BodyPcs /\ AllNonNegative(Tail(bs))) => NonDecreasing(cum_boundaries)

\* C13 witness: thresholds that do not decrease although the first offset
\* is negative.
Wit_C13 ==
    /\ pc \in BodyPcs
    /\ Len(cum_boundaries) >= 2
    /\ FLt(irt[idx].boundaries[1], FZero)
    /\ AllNonNegative(Tail(irt[idx].boundaries))
    /\ NonDecreasing(cum_boundaries)
    /\ FLt(cum_boundaries[1], cum_boundaries[Len(cum_boundaries)])

\* The curves of item n carry the labels 1..count in the order drawn.
LabelsUpTo(n, count) ==
    /\ Len(icc_lines[n]) = count
    /\ \A j \in 1..count : icc_lines[n][j][1] = j

\* C14 as stated: the curves drawn for an item of IRT_PARAMS are labelled
\* 1..max_score-1, one curve per label.
Cx_C14 ==
    (irt = IRT_PARAMS /\ pc = "icc_for" /\ idx >= 1) =>
        LabelsUpTo(idx, irt[idx].max_score - 1)

\* C14: the curves drawn for an item are labelled 1..len(boundaries) in
\* order, one curve per threshold, which is 1..max_score for every item of
\* IRT_PARAMS; each curve has one value per grid point, in grid order, the
\* probability at that grid point for the threshold of its label.
Thm_C14 ==
    /\ pc = "icc_plot" => LabelsUpTo(idx, k)
    /\ (pc = "icc_for" /\ idx >= 1 /\ irt[idx].boundaries # <<>>) =>
           LET it == irt[idx]
               ths == Thresholds(it.boundaries)
           IN  /\ LabelsUpTo(idx, Len(it.boundaries))
               /\ irt = IRT_PARAMS => LabelsUpTo(idx, it.max_score)
               /\ \A j \in 1..Len(ths) :
                      /\ Len(icc_lines[idx][j][2]) = Len(theta_range)
                      /\ \A g \in GridIx :
                             icc_lines[idx][j][2][g] =
                                 Prob(Logit(it.slope, theta_range[g], ths[j]))

\* C14 witness: the five curves of Pyramidal (max_score 5) have been drawn.
Wit_C14 ==
    /\ irt = IRT_PARAMS
    /\ pc = "icc_for" /\ idx = 1
    /\ LabelsUpTo(1, 5)
    /\ Len(icc_lines[1][5][2]) = Len(theta_range)

ZeroArray == [g \in GridIx |-> FZero]

\* C15: no step changes the item specifications or the grid; every
\* cumulative loop starts from the first boundary of its own item, every
\* threshold loop from its first threshold, every loop over the items from
\* the first item, the item information accumulator from zeros for each
\* item and the test information accumulator from zeros; the probability
\* and information arrays of a threshold are computed from the current item
\* and threshold alone.
Thm_C15 ==
    [][ /\ irt' = irt
        /\ theta_range' = theta_range
        /\ (pc \notin CumPcs /\ pc' \in CumPcs) =>
               /\ cum_boundaries' = <<irt[idx'].boundaries[1]>>
               /\ i' = 1
        /\ (pc \in CumPcs /\ pc' \in BodyPcs) => k' = 0
        /\ (pc \in {"icc_begin", "sum_begin", "tst_begin", "loc_begin"}
             /\ pc' \in {"icc_for", "inf_for", "tst_for", "loc_for"}) => idx' = 0
        /\ (pc = "inf_cum" /\ pc' = "inf_acc") => total_info' = ZeroArray
        /\ (pc = "tst_begin" /\ pc' = "tst_for") => total_test_info' = ZeroArray
        /\ (pc \in {"icc_plot", "inf_acc", "tst_acc"} /\ k' = k + 1) =>
               \A g \in GridIx :
                   prob'[g] = Prob(Logit(irt[idx].slope, theta_range[g],
                                         SumTo(irt[idx].boundaries, k')))
        /\ (pc \in {"inf_acc", "tst_acc"} /\ k' = k + 1) =>
               \A g \in GridIx : info'[g] = Info(irt[idx].slope, prob'[g])
      ]_vars

\* C15 witness: the second item of IRT_PARAMS starts from a zero accumulator
\* and its own first boundary after the first item has been summed.
Wit_C15 ==
    /\ irt = IRT_PARAMS
    /\ pc = "inf_acc" /\ idx = 2 /\ k = 0
    /\ total_info = ZeroArray
    /\ Len(item_info) = 1 /\ item_info[1][2] # ZeroArray
    /\ cum_boundaries[1] = IRT_PARAMS[2].boundaries[1]

\* The item under evaluation has slope 2 and the single threshold 0.
SlopeTwoAtZero == irt[idx].slope = FromInt(2) /\ irt[idx].boundaries = <<FZero>>
\* x is y up to one unit in the last place at 1.
Near(x, y) == FLe(FAbs(FSub(x, y)), Ulp1)

\* C17: for slope 2 and threshold 0 the probability is 0.5 at theta = 0 and
\* 0.8808, up to rounding, at theta = 1; the information at theta = 0 is 1.
Thm_C17 ==
    (ProbAt /\ SlopeTwoAtZero) =>
        \A g \in GridIx :
            /\ theta_range[g] = FZero =>
                   /\ prob[g] = Half
                   /\ InfoAt => info[g] = FOne
            /\ theta_range[g] = FOne => Near(prob[g], FromRat(8808, 10000))

\* C17 witness: slope 2, threshold 0, evaluated on a grid holding 0 and 1.
Wit_C17 ==
    /\ InfoAt /\ SlopeTwoAtZero
    /\ \E g \in GridIx : theta_range[g] = FZero /\ info[g] = FOne
    /\ \E g \in GridIx : theta_range[g] = FOne /\ FLt(Half, prob[g])

\* C18: for two items with the single threshold 0 and the slopes 1 and 2
\* the total test information at theta = 0 is 1.25 and the standard error
\* there is 0.894, up to rounding.
Thm_C18 ==
    (SeDone /\ irt = TwoItems) =>
        \A g \in GridIx :
            theta_range[g] = FZero =>
                /\ total_test_info[g] = FromRat(5, 4)
                /\ Near(se[g], FromRat(894, 1000))

\* C18 witness: the two-item battery's standard error at theta = 0.
Wit_C18 ==
    /\ SeDone /\ irt = TwoItems
    /\ \E g \in GridIx :
           /\ theta_range[g] = FZero
           /\ total_test_info[g] = FromRat(5, 4)
           /\ FLt(se[g], FOne)

Success == "All infographics generated successfully!"
Digits == <<"1", "2", "3", "4", "5", "6">>

\* C20: the files written so far are the first of the six infographics, in
\* the order 01..06, one per create_* function; the n-th line printed after
\* the header is the Created: message naming the n-th file; the success
\* message is printed only once all six files are written, and the final
\* listing names the same six files in the same order.
Thm_C20 ==
    /\ Len(files) <= Len(Infographics)
    /\ files = SubSeq(Infographics, 1, Len(files))
    /\ pc # "main" =>
           /\ Len(out) = Len(MainHeader) + Len(files)
                           + (IF pc = "done" THEN Len(MainFooter) ELSE 0)
           /\ \A n \in 1..Len(files) :
                  out[Len(MainHeader) + n] = "Created: " \o files[n]
    /\ (\E n \in 1..Len(out) : out[n] = Success) => files = Infographics
    /\ pc = "done" =>
           \A n \in 1..Len(files) :
               out[Len(out) - Len(files) + n] = "  " \o Digits[n] \o ". " \o files[n]

\* C20 witness: main has ended after writing the six files.
Wit_C20 ==
    /\ pc = "done"
    /\ files = Infographics
    /\ \E n \in 1..Len(out) : out[n] = Success

\* The order main announces: the function behind each slide, the slide's
\* title, and the line printed before it is added.
DeckOrder ==
    << "add_title_slide",
       "add_agenda_slide",
       "add_background_slide",
       "add_image_slide_with_notes",
       "add_model_structure_discussion",
       "add_image_slide_with_notes",
       "add_image_slide_with_notes",
       "add_correlation_discussion",
       "add_image_slide_with_notes",
       "add_irt_interpretation_slide",
       "add_image_slide_with_notes",
       "add_drug_effect_discussion",
       "add_image_slide_with_notes",
       "add_summary_slide",
       "add_references_slide" >>
DeckTitles ==
    << "IRT Model for EDSS in Multiple Sclerosis",
       "Presentation Overview",
       "Clinical Background: Multiple Sclerosis & EDSS",
       "Model Structure Overview",
       "Model Structure: Mathematical Framework",
       "Parameter Estimates Summary",
       "Random Effects Correlation Structure",
       "Random Effects: Clinical Interpretation of Correlations",
       "Item Characteristic Curves",
       "IRT Analysis: Clinical Implications of Item Parameters",
       "Cladribine Drug Effects",
       "Cladribine: Dual Mechanism Drug Effects",
       "IRT Item Parameter Analysis",
       "Summary: Key Findings & Clinical Implications",
       "References & Further Reading" >>
Announced ==
    << "Creating slide 1: Title...",
       "Creating slide 2: Agenda...",
       "Creating slide 3: Clinical Background...",
       "Creating slide 4: Model Structure (with notes)...",
       "Creating slide 5: Model Structure Discussion...",
       "Creating slide 6: Parameter Estimates (with notes)...",
       "Creating slide 7: Correlation Matrix (with notes)...",
       "Creating slide 8: Correlation Discussion...",
       "Creating slide 9: ICC Curves (with notes)...",
       "Creating slide 10: IRT Interpretation...",
       "Creating slide 11: Drug Effects (with notes)...",
       "Creating slide 12: Drug Effect Discussion...",
       "Creating slide 13: IRT Summary (with notes)...",
       "Creating slide 14: Summary...",
       "Creating slide 15: References..." >>
Saved == Exists(output_file)

\* C19: the slides of the presentation are at every moment the first of
\* the fifteen announced slides, in the announced order, each announced by
\* its own line; the presentation is saved only once the fifteenth slide is
\* there, and no slide is added or removed after that.
Thm_C19 ==
    /\ [](/\ Len(slides) <= Len(DeckOrder)
          /\ \A n \in 1..Len(slides) :
                 /\ slides[n].by = DeckOrder[n]
                 /\ slides[n].title = DeckTitles[n]
                 /\ out[Len(DeckHeader) + n] = Announced[n]
          /\ Saved => Len(slides) = Len(DeckOrder))
    /\ [][/\ \/ slides' = slides
             \/ /\ Len(slides') = Len(slides) + 1
                /\ SubSeq(slides', 1, Len(slides)) = slides
          /\ Saved' => slides' = slides
          /\ (Saved' /\ ~Saved) => Len(slides) = 15]_vars

\* C19 witness: the presentation has been saved with its fifteen slides.
Wit_C19 ==
    /\ pc = "deck_done"
    /\ Saved
    /\ Len(slides) = 15
    /\ slides[15].by = "add_references_slide"

ItemIx == 1..Len(IRT_PARAMS)
\* The names of the items of IRT_PARAMS whose slope, in thousandths, is
\* above, or below, t.
NamesAbove(t) == {IRT_PARAMS[n].name : n \in {m \in ItemIx : SlopeMilli[m] > t}}
NamesBelow(t) == {IRT_PARAMS[n].name : n \in {m \in ItemIx : SlopeMilli[m] < t}}
\* The entries of a list of <<name, hundredths>> pairs.
Shown(items) == {items[n] : n \in 1..Len(items)}
\* Every entry shows the slope of the item it names, to two decimals.
ShowsSlopes(items) ==
    \A e \in Shown(items) :
        \E n \in ItemIx : IRT_PARAMS[n].name = e[1] /\ Round2(SlopeMilli[n]) = e[2]
\* SlopeMilli holds the slopes of IRT_PARAMS.
SlopesAgree == \A n \in ItemIx : IRT_PARAMS[n].slope = Lit(SlopeMilli[n])

\* C21: the items the interpretation slide and the guide text of the summary
\* figure present as high discrimination are exactly the items of IRT_PARAMS
\* with slope > 2.5, each with its slope to two decimals.
Thm_C21 ==
    Len(slides) >= 10 =>
        /\ SlopesAgree
        /\ {e[1] : e \in Shown(slides[10].high_items)} = NamesAbove(2500)
        /\ Len(slides[10].high_items) = Cardinality(NamesAbove(2500))
        /\ ShowsSlopes(slides[10].high_items)
        /\ GuideHighItems = slides[10].high_items

\* C21 witness: the interpretation slide is in the deck with its three
\* high discrimination items.
Wit_C21 ==
    /\ Len(slides) >= 10
    /\ slides[10].by = "add_irt_interpretation_slide"
    /\ Len(slides[10].high_items) = 3

\* C22 as stated: the items listed under "Lower Discrimination Items
\* (slope < 1.5)" are exactly the items of IRT_PARAMS with slope below 1.5.
Cx_C22 ==
    Len(slides) >= 10 =>
        {e[1] : e \in Shown(slides[10].low_items)} = NamesBelow(1500)

\* C23: Ambulation has the strictly highest slope of IRT_PARAMS, shown as
\* 3.64, and Visual the strictly lowest, shown as 0.44, as the notes of
\* slide 6 say.
Thm_C23 ==
    Len(slides) >= 6 =>
        /\ SlopesAgree
        /\ slides[6].bullets[4]
               = "Ambulation has highest discrimination (3.64) - most informative subscore"
        /\ slides[6].bullets[5]
               = "Visual has lowest discrimination (0.44) - less reliable indicator"
        /\ \A n \in ItemIx :
               /\ IRT_PARAMS[n].name = "Ambulation" => Round2(SlopeMilli[n]) = 364
               /\ IRT_PARAMS[n].name # "Ambulation" => SlopeMilli[n] < SlopeMilli[8]
               /\ IRT_PARAMS[n].name = "Visual" => Round2(SlopeMilli[n]) = 44
               /\ IRT_PARAMS[n].name # "Visual" => SlopeMilli[n] > SlopeMilli[6]
               /\ IRT_PARAMS[n].name # "Ambulation" =>
                      FLt(IRT_PARAMS[n].slope, IRT_PARAMS[8].slope)
               /\ IRT_PARAMS[n].name # "Visual" =>
                      FLt(IRT_PARAMS[6].slope, IRT_PARAMS[n].slope)
        /\ IRT_PARAMS[8].name = "Ambulation" /\ IRT_PARAMS[6].name = "Visual"

\* C23 witness: slide 6 is in the deck with its notes.
Wit_C23 ==
    /\ Len(slides) >= 6
    /\ slides[6].title = "Parameter Estimates Summary"
    /\ Len(slides[6].bullets) = 6

\* Which configured correlation belongs to which pair of labels: the constant
\* COR_A_B is the one for the labels abbreviated A and B.
CorNamed ==
    { <<"Disability", "Slope", COR_DIS_SLOPE>>, <<"Disability", "Age", COR_DIS_AGE>>,
      <<"Slope", "Age", COR_SLOPE_AGE>>, <<"Disability", "MSD", COR_DIS_MSD>>,
      <<"Slope", "MSD", COR_SLOPE_MSD>>, <<"Age", "MSD", COR_AGE_MSD>>,
      <<"Disability", "EXNB", COR_DIS_EXNB>>, <<"Slope", "EXNB", COR_SLOPE_EXNB>>,
      <<"Age", "EXNB", COR_AGE_EXNB>>, <<"MSD", "EXNB", COR_MSD_EXNB>> }

LabelIx(name) == CHOOSE n \in 1..Len(labels) : labels[n] = name

\* C29: the matrix the heatmap draws is 5x5 and symmetric, has 1 on its
\* diagonal, holds at each of the 10 off-diagonal pairs the correlation
\* constant named after the pair's two labels, and has every entry in [-1, 1].
Thm_C29 ==
    corr_matrix # <<>> =>
        /\ Len(corr_matrix) = 5
        /\ \A r \in 1..5 : Len(corr_matrix[r]) = 5
        /\ \A r, c \in 1..5 : corr_matrix[r][c] = corr_matrix[c][r]
        /\ \A r \in 1..5 : corr_matrix[r][r] = FOne
        /\ Cardinality({<<t[1], t[2]>> : t \in CorNamed}) = 10
        /\ \A r, c \in 1..5 :
              r < c => \E t \in CorNamed :
                          /\ LabelIx(t[1]) = r /\ LabelIx(t[2]) = c
                          /\ corr_matrix[r][c] = t[3]
        /\ \A r, c \in 1..5 :
              /\ FLe(FNeg(FOne), corr_matrix[r][c])
              /\ FLe(corr_matrix[r][c], FOne)

\* The matrix has been built for the heatmap and holds a negative correlation.
Wit_C29 ==
    /\ pc = "icc_begin"
    /\ corr_matrix # <<>>
    /\ FLt(corr_matrix[4][5], FZero)
    /\ "infographic_03_correlation_matrix.png" \in {files[n] : n \in 1..Len(files)}

\* The threshold sequences the loop at position at has ended with, by item.
LoggedBy(at) ==
    {<<cum_log[n][2], cum_log[n][3]>> : n \in {m \in 1..Len(cum_log) : cum_log[m][1] = at}}

\* C26: the four copies of the cumulative-boundary loop (ICC curves, item
\* information, test information, threshold locations) end with the same
\* threshold sequence for the same item, the running sums of its offsets; for
\* IRT_PARAMS each of the four copies has produced one for each of the 8 items.
Thm_C26 ==
    /\ \A m, n \in 1..Len(cum_log) :
          cum_log[m][2] = cum_log[n][2] => cum_log[m][3] = cum_log[n][3]
    /\ \A n \in 1..Len(cum_log) :
          cum_log[n][3] = Thresholds(irt[cum_log[n][2]].boundaries)
    /\ (irt = IRT_PARAMS /\ pc = "done") =>
          \A at \in CumPcs : \A n \in ItemIx :
              <<n, Thresholds(IRT_PARAMS[n].boundaries)>> \in LoggedBy(at)

\* All four copies have run over the eight configured items.
Wit_C26 ==
    /\ irt = IRT_PARAMS /\ pc = "done"
    /\ Len(cum_log) = 4 * Len(IRT_PARAMS)
    /\ \A at \in CumPcs : Cardinality(LoggedBy(at)) = Len(IRT_PARAMS)

StrictlyIncreasing(xs) == \A j \in 1..(Len(xs) - 1) : FLt(xs[j], xs[j + 1])

\* C28: for every item of IRT_PARAMS as configured, each offset after the
\* first is above zero (a negative offset occurs only in first place), and the
\* cumulative thresholds every loop computes for it are strictly increasing.
Thm_C28 ==
    irt = IRT_PARAMS =>
        /\ \A n \in ItemIx : \A j \in 1..Len(irt[n].boundaries) :
              j > 1 => FLt(FZero, irt[n].boundaries[j])
        /\ \A n \in 1..Len(cum_log) : StrictlyIncreasing(cum_log[n][3])
        /\ InItem => StrictlyIncreasing(cum_boundaries)

\* The nine thresholds of Ambulation, whose offsets are the smallest, and the
\* thresholds of an item with a negative first offset have been computed.
Wit_C28 ==
    /\ irt = IRT_PARAMS
    /\ \E n \in 1..Len(cum_log) :
          /\ cum_log[n][1] = "loc_cum" /\ cum_log[n][2] = 8
          /\ Len(cum_log[n][3]) = 9
    /\ \E n \in 1..Len(cum_log) :
          /\ FLt(cum_log[n][3][1], FZero)
          /\ FLt(FZero, cum_log[n][3][2])

\* The sum, from the first item on, of the first n per-item curves at grid point g.
RECURSIVE SumCurves(_, _, _)
SumCurves(curves, n, g) ==
    IF n = 0 THEN FZero ELSE FAdd(SumCurves(curves, n - 1, g), curves[n][2][g])

\* Both loops of the summary have ended: every item's curve and the test curve exist.
BothCurves == pc = "tst_se" /\ Len(item_info) = Len(irt)

\* C27 (as stated): the test information equals, at every grid point, the sum
\* of the per-item information curves.
Cx_C27 ==
    BothCurves =>
        \A g \in GridIx : total_test_info[g] = SumCurves(item_info, Len(item_info), g)

\* C27 (amended): the test information and the sum of the per-item curves
\* add the same terms in a different grouping; they agree up to rounding (four
\* units of the significand, relative to the total), exactly for a single item,
\* and no item's curve lies above the test information at any grid point.
Thm_C27 ==
    BothCurves =>
        \A g \in GridIx :
            LET curves == SumCurves(item_info, Len(item_info), g)
            IN  /\ FLe(FAbs(FSub(total_test_info[g], curves)),
                       FMul(SymTol, total_test_info[g]))
                /\ Len(irt) = 1 => total_test_info[g] = curves
                /\ \A n \in 1..Len(item_info) :
                      FLe(item_info[n][2][g], total_test_info[g])

\* Both loops have run over the eight items and, at some grid point, the two
\* sums are positive and differ.
Wit_C27 ==
    /\ BothCurves /\ irt = IRT_PARAMS
    /\ \E g \in GridIx :
          /\ FLt(FZero, total_test_info[g])
          /\ total_test_info[g] # SumCurves(item_info, Len(item_info), g)

\* What a call of add_image_slide_with_notes has done to the presentation.
Called == slides' # slides
NewSlide == slides'[Len(slides')]
CountOf(shape, shapes) == Cardinality({n \in 1..Len(shapes) : shapes[n] = shape})
HasNotesPanel(sl) ==
    /\ \A sh \in {"title_bar", "title_box", "notes_box", "notes_header", "notes_content"} :
          CountOf(sh, sl.shapes) = 1
    /\ sl.title = args'[2]
    /\ sl.bullets = args'[4]
    /\ Len(args'[4]) > 0 =>
          /\ Len(sl.paragraphs) = Len(args'[4])
          /\ \A n \in 1..Len(args'[4]) : sl.paragraphs[n] = <<"bullet", args'[4][n]>>
OneSlideAdded == Len(slides') = Len(slides) + 1 /\ SubSeq(slides', 1, Len(slides)) = slides
SubtitleIff(sl) == CountOf("subtitle_box", sl.shapes) = (IF args'[3] # "" THEN 1 ELSE 0)

\* C24 (as stated): every call adds exactly one slide and raises no error; a
\* path that does not exist gives no picture but the title bar, title, notes
\* panel and one bullet paragraph per note; a path that exists gives exactly
\* one picture; the subtitle box is there iff subtitle is not empty.
Cx_C24 ==
    [][Called =>
          /\ OneSlideAdded
          /\ err' = "none"
          /\ HasNotesPanel(NewSlide)
          /\ SubtitleIff(NewSlide)
          /\ CountOf("picture", NewSlide.shapes) = (IF Exists(args'[1]) THEN 1 ELSE 0)]_vars

\* C24 (amended): every call adds exactly one slide, with the subtitle box iff
\* subtitle is not empty. A path that does not exist gives no error and no
\* picture, and a path of an image file gives exactly one picture; in both
\* cases the slide has its title bar, title, notes panel and one bullet
\* paragraph per note. A path that exists but is not an image file (such as a
\* directory) makes add_picture raise: the slide is left with what precedes the
\* picture, without picture and notes panel, and the error reaches the caller.
Thm_C24 ==
    [][Called =>
          /\ OneSlideAdded
          /\ SubtitleIff(NewSlide)
          /\ IF Exists(args'[1]) /\ ~IsImageFile(args'[1])
             THEN /\ err' = "OSError" /\ pc' = "raised"
                  /\ CountOf("picture", NewSlide.shapes) = 0
                  /\ CountOf("notes_box", NewSlide.shapes) = 0
                  /\ NewSlide.bullets = <<>>
             ELSE /\ err' = "none"
                  /\ HasNotesPanel(NewSlide)
                  /\ CountOf("picture", NewSlide.shapes)
                        = (IF IsImageFile(args'[1]) THEN 1 ELSE 0)
                  /\ NewSlide.pictures
                        = (IF IsImageFile(args'[1]) THEN <<args'[1]>> ELSE <<>>)]_vars

\* Two calls have been made in a directory holding the image: the first with
\* a subtitle and two notes, the second without subtitle and notes; both
\* slides carry the picture.
Wit_C24 ==
    /\ pc = "slide_call" /\ Len(slides) = 2
    /\ files # <<>>
    /\ Len(slides[1].bullets) = 2 /\ slides[1].subtitle # <<>>
    /\ slides[2].bullets = <<>> /\ slides[2].subtitle = <<>>
    /\ \A n \in 1..2 : slides[n].pictures = <<"infographic_01_model_structure.png">>

\* The image slides of the presentation, in order, and the paths they were given.
RECURSIVE ImageSlides(_)
ImageSlides(sls) ==
    IF sls = <<>> THEN <<>>
    ELSE (IF sls[1].by = "add_image_slide_with_notes" THEN <<sls[1]>> ELSE <<>>)
         \o ImageSlides(Tail(sls))
ImageSlideAt == {4, 6, 7, 9, 11, 13}

\* C25: the generator writes six files and the deck builder, run after it in
\* the same directory, has six image slides: the n-th of them is given the
\* name of the n-th file written, 01..06 in ascending order, each name on one
\* slide only, and every image slide carries its picture.
Thm_C25 ==
    /\ pc \in {"done", "deck_main"} =>
          /\ files = Infographics
          /\ \A m, n \in 1..Len(files) : m # n => files[m] # files[n]
    /\ \A n \in 1..Len(slides) :
          slides[n].by = "add_image_slide_with_notes" <=> n \in ImageSlideAt
    /\ \A n \in 1..Len(ImageSlides(slides)) :
          /\ n <= Len(Infographics)
          /\ ImageSlides(slides)[n].pictures = <<Infographics[n]>>
          /\ CountOf("picture", ImageSlides(slides)[n].shapes) = 1
    /\ pc = "deck_done" =>
          /\ Len(ImageSlides(slides)) = Len(Infographics)
          /\ SubSeq(files, 1, Len(Infographics)) = Infographics

\* Both programs have ended: fifteen slides, six of them with pictures, and
\* the presentation saved next to the six infographics.
Wit_C25 ==
    /\ pc = "deck_done"
    /\ Len(slides) = 15
    /\ Len(ImageSlides(slides)) = 6
    /\ files = Infographics \o <<output_file>>

====
